---- MODULE Spec2Model ----
(***************************************************************************)
(* The credential lifecycle of astroplant_client.Client: authenticate,     *)
(* the authentication_required wrapper around get and post, the refresh    *)
(* and fallback path, and the websocket publish path with its nonce.       *)
(*                                                                         *)
(* An optional value (Python None or a value) is a sequence of length 0    *)
(* or 1.  The clock is a whole number of seconds plus a flag telling       *)
(* whether a non-zero sub-second part follows, which is all that the       *)
(* truncating comparisons of the client can observe.  One handler reads    *)
(* the clock at one instant.                                               *)
(***************************************************************************)
EXTENDS Integers, Sequences, FiniteSets, TLC

\* ------------------------------------------------------------ constants

REFRESH_BEFORE_EXPIRY_IN_SECONDS == 60

REFRESH_BEFORE_EXPIRY_CUTOFF_IN_SECONDS == 3

\* timedelta normalises to days, 0 <= seconds < 86400, microseconds.
SecondsPerDay == 86400

\* The status the client accepts.
StatusOK == 200

\* -------------------------------------------------------------- bounds

\* The clock advances at most this many times.
MaxTicks == 1

\* publish_measurement is called while ws_nonce is below this.
MaxNonce == 2

\* The clock's advances, in seconds.
Steps == {28, 575}

\* Lifetimes (exp - now at issue) of the tokens the obtain endpoint issues:
\* already expired, inside the refresh window, fresh, and longer than one day.
\* With Steps, a lifetime of 30 falls to 2 (below the cutoff) or below 0, and
\* one of 600 to 25 (inside the window).
Lifetimes == {-5, 30, 600, 86430}

\* The identities a caller may supply.
Identities ==
    { [serial |-> "kit-1", secret |-> "s3cr3t"],
      [serial |-> "kit-2", secret |-> "hunter2"] }

\* --------------------------------------------------------------- values

None == <<>>

Some(x) == <<x>>

\* A token as the obtain endpoint returns it: a JWT carrying an exp claim, a
\* JWT without one, or a string that is no JWT.
Jwt(e) == [kind |-> "jwt", exp |-> e]

NoExpToken == [kind |-> "noexp", exp |-> 0]

GarbageToken == [kind |-> "garbage", exp |-> 0]

TokensAt(sec) == {Jwt(sec + l) : l \in Lifetimes} \cup {NoExpToken, GarbageToken}

\* What an endpoint does with one request: it cannot be reached, or it
\* answers with a status and a body that is not JSON ("html"), JSON null,
\* an object with a token, an object with non_field_errors, or an object
\* with neither.
Answer(s, b, t) == [status |-> s, body |-> b, token |-> t]

Unreachable == Answer(0, "unreachable", GarbageToken)

\* The answer of an endpoint that a call never asks.
NotAsked == Answer(0, "not asked", GarbageToken)

\* The obtain endpoint's answers at time sec.
ObtainAnswersAt(sec) ==
    {Unreachable}
    \cup {Answer(StatusOK, b, GarbageToken) : b \in {"html", "null", "object"}}
    \cup {Answer(401, b, GarbageToken) : b \in {"html", "errors"}}
    \cup {Answer(StatusOK, "token", t) : t \in TokensAt(sec)}
    \cup {Answer(401, "token", Jwt(sec + 600))}

\* The verify endpoint's answers at time sec.
VerifyAnswersAt(sec) ==
    {Unreachable, Answer(401, "errors", GarbageToken),
     Answer(StatusOK, "object", GarbageToken),
     Answer(StatusOK, "token", Jwt(sec + 600))}

\* The verify endpoint accepts: status 200 and a token in the body.
Accepts(ans) == ans.status = StatusOK /\ ans.body = "token"

VARIABLES
    token,        \* self.token: None or the token string
    token_data,   \* self.token_data: None or the decoded claims
    token_exp,    \* self.token_exp: None or the expiry, in seconds
    authorization,\* session.headers['Authorization']: None or the header
    auth_serial,  \* self.auth_serial: unset or the serial
    auth_secret,  \* self.auth_secret: unset or the secret
    ws_nonce,     \* self.ws_nonce
    ws_connected, \* whether self.ws holds an open connection
    stream,       \* the nonces of the envelopes the stream received, in order
    now,          \* the clock: [sec, frac]
    ticks,        \* how often the clock advanced
    last,         \* what the last call did
    authenticated,\* apiclient.Client: self.authenticated
    threads       \* where each thread that shares the client is in its call

vars == <<token, token_data, token_exp, authorization, auth_serial,
          auth_secret, ws_nonce, ws_connected, stream, now, ticks, last,
          authenticated, threads>>

\* ---------------------------------------------------------- the client

\* The credential fields of the client as one record.
Self ==
    [token |-> token, token_data |-> token_data, token_exp |-> token_exp,
     authorization |-> authorization, auth_serial |-> auth_serial,
     auth_secret |-> auth_secret]

\* The outcome of a step of the client: its fields, the exception raised
\* ("none" when it returned), the requests sent to auth-token-verify/ and
\* the payloads sent to auth-token-obtain/.
Outcome(c, raised, verify, obtain) ==
    [c |-> c, raised |-> raised, verify |-> verify, obtain |-> obtain]

\* jwt.decode(token, verify = False): the claims of the token.
Decode(t) == [exp |-> IF t.kind = "jwt" THEN Some(t.exp) ELSE None]

\* 'JWT %s' % self.token: the value of the Authorization header.
AuthorizationHeader(t) == [scheme |-> "JWT", credentials |-> t]

\* Client._process_token
_process_token(c, t) ==
    LET c1 == [c EXCEPT !.token = Some(t)]
        c2 == [c1 EXCEPT !.token_data = Some(Decode(t))]
        c3 == [c2 EXCEPT !.token_exp = Decode(t).exp]
        c4 == [c3 EXCEPT !.authorization = Some(AuthorizationHeader(t))]
    IN  IF t.kind = "garbage" THEN [c |-> c1, raised |-> "DecodeError"]
        ELSE IF Decode(t).exp = None THEN [c |-> c2, raised |-> "KeyError"]
        ELSE [c |-> c4, raised |-> "none"]

\* authenticate as it would be if it kept the credential it holds for the
\* identity it is called with, and sent nothing.
authenticate_cached(c, serial, secret, ans) ==
    LET c1 == [c EXCEPT !.auth_serial = serial, !.auth_secret = secret]
        payload == <<[username |-> serial, password |-> secret]>>
        p == _process_token(c1, ans.token)
    IN  IF c.token # None /\ c.auth_serial = serial /\ c.auth_secret = secret
          THEN Outcome(c, "none", 0, <<>>)
        ELSE IF ans.body = "unreachable"
          THEN Outcome(c1, "ConnectionError", 0, payload)
        ELSE IF ans.body = "html"
          THEN Outcome(c1, "ValueError", 0, payload)
        ELSE IF ans.body = "null"
          THEN Outcome(c1, "TypeError", 0, payload)
        ELSE IF ans.status = StatusOK /\ ans.body = "token"
          THEN Outcome(p.c, p.raised, 0, payload)
        ELSE Outcome(c1, "AuthenticationError", 0, payload)

\* Client.authenticate, the obtain endpoint answering ans.
authenticate(c, serial, secret, ans) ==
    LET c1 == [c EXCEPT !.auth_serial = serial, !.auth_secret = secret]
        payload == <<[username |-> serial, password |-> secret]>>
        p == _process_token(c1, ans.token)
    IN  IF ans.body = "unreachable"
          THEN Outcome(c1, "ConnectionError", 0, payload)
        ELSE IF ans.body = "html"
          THEN Outcome(c1, "ValueError", 0, payload)
        ELSE IF ans.body = "null"
          THEN Outcome(c1, "TypeError", 0, payload)
        ELSE IF ans.status = StatusOK /\ ans.body = "token"
          THEN Outcome(p.c, p.raised, 0, payload)
        ELSE Outcome(c1, "AuthenticationError", 0, payload)

\* timedelta.seconds of a difference whose floor is d whole seconds.
TimedeltaSeconds(d) == d % SecondsPerDay

\* The floor, in seconds, of exp - datetime.now().
FloorDiff(exp, clock) == exp - clock.sec - (IF clock.frac THEN 1 ELSE 0)

\* Client._needs_reauthentication; token_exp is not None.
_needs_reauthentication(c, clock) ==
    TimedeltaSeconds(FloorDiff(Head(c.token_exp), clock))
        < REFRESH_BEFORE_EXPIRY_IN_SECONDS

\* Client._can_refresh; token_exp is not None.
_can_refresh(c, clock) ==
    TimedeltaSeconds(FloorDiff(Head(c.token_exp), clock))
        > REFRESH_BEFORE_EXPIRY_CUTOFF_IN_SECONDS

\* Client._refresh_authentication, the verify endpoint ready to answer vans:
\* the payload is built from the name token, which is bound nowhere, so the
\* method raises before it sends anything.
_refresh_authentication(c, vans) == Outcome(c, "NameError", 0, <<>>)

\* Client._reauthenticate
_reauthenticate(c, clock, vans, oans) ==
    LET r == _refresh_authentication(c, vans)
        a == authenticate(r.c, r.c.auth_serial, r.c.auth_secret, oans)
    IN  IF _can_refresh(c, clock) /\ r.raised = "none" THEN r
        ELSE IF _can_refresh(c, clock)
          THEN Outcome(a.c, a.raised, r.verify + a.verify, r.obtain \o a.obtain)
        ELSE a

\* The wrapper of Client.authentication_required up to the call of func:
\* the outcome of the guard, raised = "none" when func is to be called.
authentication_required(c, clock, vans, oans) ==
    IF c.token_exp = None THEN Outcome(c, "TypeError", 0, <<>>)
    ELSE IF _needs_reauthentication(c, clock)
      THEN _reauthenticate(c, clock, vans, oans)
    ELSE Outcome(c, "none", 0, <<>>)

\* A Python bool as a call returns it.
Bool(b) == IF b THEN "True" ELSE "False"

\* The outcome of a call that returns a value: the fields of the client, the
\* exception raised, the value returned ("none" when it raised) and the
\* requests sent to auth-token-verify/.
Returned(c, raised, ret, verify) ==
    [c |-> c, raised |-> raised, ret |-> ret, verify |-> verify]

\* _verify_token as it would be if it took the token of an accepting answer,
\* the way a refresh does.
_verify_token_adopting(c, ans) ==
    IF ans.body = "unreachable" THEN Returned(c, "ConnectionError", "none", 1)
    ELSE IF ans.status = StatusOK /\ ans.body = "token"
      THEN Returned(_process_token(c, ans.token).c, "none", "True", 1)
    ELSE Returned(c, "none", Bool(ans.status = StatusOK), 1)

\* Client._verify_token, the verify endpoint answering ans.
_verify_token(c, ans) ==
    IF ans.body = "unreachable" THEN Returned(c, "ConnectionError", "none", 1)
    ELSE Returned(c, "none", Bool(ans.status = StatusOK), 1)

\* Client.is_authenticated(verify), the verify endpoint answering ans.
is_authenticated(c, clock, verify, ans) ==
    IF verify THEN _verify_token(c, ans)
    ELSE IF c.token_exp = None THEN Returned(c, "TypeError", "none", 0)
    ELSE Returned(c, "none",
                  Bool(TimedeltaSeconds(FloorDiff(Head(c.token_exp), clock)) > 0),
                  0)

\* Whether the guard of a call made now goes to the endpoints at all.
Renews(c, clock) == c.token_exp # None /\ _needs_reauthentication(c, clock)

\* The answers the endpoints may give to the requests of a guarded call made
\* now; a guard that does not renew asks neither endpoint.
VerifyAsked(c, clock) ==
    IF Renews(c, clock) THEN VerifyAnswersAt(clock.sec) ELSE {NotAsked}

ObtainAsked(c, clock) ==
    IF Renews(c, clock) THEN ObtainAnswersAt(clock.sec) ELSE {NotAsked}

\* -------------------------------------------------- threads of a client

\* The threads that call the one client.
Threads == {"t1", "t2"}

\* A thread: where it is in its call (pc), the token the guard found
\* expiring (saw), the nonce it put into its envelope (nonce) and the value
\* of ws_nonce it loaded for the increment (loaded).
Thread(pc, saw, nonce, loaded) ==
    [pc |-> pc, saw |-> saw, nonce |-> nonce, loaded |-> loaded]

\* A thread between two calls.
Resting == Thread("idle", None, 0, 0)

\* ------------------------------------------------------------- history

\* What a call did: its name, the exception that reached the caller, whether
\* the wrapped operation was invoked (the request issued, the envelope handed
\* to the stream's send), whether the stream took the envelope, the requests
\* to auth-token-verify/, the payloads to auth-token-obtain/, and the answers
\* the verify and the obtain endpoint had for the call; the value it
\* returned ("none" for a call that returns nothing), and for authenticate
\* whether it repeats the identity of a credential the client holds.
Call(op, raised, ran, sent, verify, obtain, vans, oans) ==
    [op |-> op, raised |-> raised, ran |-> ran, sent |-> sent,
     verify |-> verify, obtain |-> obtain, verify_answer |-> vans,
     obtain_answer |-> oans, ret |-> "none", again |-> FALSE]

NoCall == Call("none", "none", FALSE, FALSE, 0, <<>>, NotAsked, NotAsked)

\* -------------------------------------------------------------- actions

Init ==
    /\ token = None
    /\ token_data = None
    /\ token_exp = None
    /\ authorization = None
    /\ auth_serial = None
    /\ auth_secret = None
    /\ ws_nonce = 0
    /\ ws_connected = FALSE
    /\ stream = <<>>
    /\ now = [sec |-> 0, frac |-> FALSE]
    /\ ticks = 0
    /\ last = NoCall
    /\ authenticated = FALSE
    /\ threads = [t \in Threads |-> Resting]

Install(c) ==
    /\ token' = c.token
    /\ token_data' = c.token_data
    /\ token_exp' = c.token_exp
    /\ authorization' = c.authorization
    /\ auth_serial' = c.auth_serial
    /\ auth_secret' = c.auth_secret

\* The caller is between two calls: the last one has returned to it.
Idle == last.op = "none"

\* The caller takes the outcome of the call it made.
Return ==
    /\ ~Idle
    /\ last' = NoCall
    /\ UNCHANGED <<token, token_data, token_exp, authorization, auth_serial,
                   auth_secret, ws_nonce, ws_connected, stream, now, ticks,
                   authenticated, threads>>

\* Time passes.
Tick ==
    /\ Idle
    /\ ticks < MaxTicks
    /\ \E d \in Steps, f \in BOOLEAN :
          now' = [sec |-> now.sec + d, frac |-> f]
    /\ ticks' = ticks + 1
    /\ UNCHANGED <<token, token_data, token_exp, authorization, auth_serial,
                   auth_secret, ws_nonce, ws_connected, stream, last,
                   authenticated, threads>>

\* client.authenticate(serial, secret)
Authenticate ==
    /\ Idle
    /\ \E id \in Identities, ans \in ObtainAnswersAt(now.sec) :
        LET a == authenticate(Self, Some(id.serial), Some(id.secret), ans)
        IN  /\ Install(a.c)
            /\ last' = [Call("authenticate", a.raised, FALSE, FALSE,
                             a.verify, a.obtain, NotAsked, ans)
                          EXCEPT !.again = /\ token # None
                                           /\ auth_serial = Some(id.serial)
                                           /\ auth_secret = Some(id.secret)]
            /\ UNCHANGED <<ws_nonce, ws_connected, stream, now, ticks,
                   authenticated, threads>>

\* client.is_authenticated(verify = False) and
\* client.is_authenticated(verify = True)
IsAuthenticated(verify) ==
    /\ Idle
    /\ \E ans \in (IF verify THEN VerifyAnswersAt(now.sec) ELSE {NotAsked}) :
        LET r == is_authenticated(Self, now, verify, ans)
        IN  /\ Install(r.c)
            /\ last' = [Call(IF verify THEN "is_authenticated_verify"
                                       ELSE "is_authenticated",
                             r.raised, FALSE, FALSE, r.verify, <<>>, ans,
                             NotAsked)
                          EXCEPT !.ret = r.ret]
            /\ UNCHANGED <<ws_nonce, ws_connected, stream, now, ticks,
                   authenticated, threads>>

IsAuthenticatedLocally == IsAuthenticated(FALSE)

IsAuthenticatedVerified == IsAuthenticated(TRUE)

\* client.get(url) and client.post(url, payload): the guard, then the
\* request, whose response text is empty, JSON or neither.
Request(op) ==
    /\ Idle
    /\ \E vans \in VerifyAsked(Self, now), oans \in ObtainAsked(Self, now),
       text \in {"empty", "json", "other"} :
        LET g == authentication_required(Self, now, vans, oans)
            ran == g.raised = "none"
            raised == IF ~ran THEN g.raised
                      ELSE IF text = "other" THEN "ValueError" ELSE "none"
        IN  /\ Install(g.c)
            /\ last' = Call(op, raised, ran, FALSE, g.verify, g.obtain,
                            vans, oans)
            /\ UNCHANGED <<ws_nonce, ws_connected, stream, now, ticks,
                   authenticated, threads>>

Get == Request("get")

Post == Request("post")

\* client._open_websocket(): the handshake carries the token; the server
\* takes the connection or refuses it.
OpenWebsocket ==
    /\ Idle
    /\ \E ok \in BOOLEAN : ws_connected' = ok
    /\ last' = Call("_open_websocket", "none", FALSE, FALSE, 0, <<>>,
                    NotAsked, NotAsked)
    /\ UNCHANGED <<token, token_data, token_exp, authorization, auth_serial,
                   auth_secret, ws_nonce, stream, now, ticks,
                   authenticated, threads>>

\* client.publish_measurement(measurement): the envelope is built from the
\* measurement's getters (which raise on an object that has none), the nonce
\* is incremented, and the envelope is handed to ws.send, which raises on a
\* closed or broken connection; a connection whose send failed may or may
\* not remain open.
PublishMeasurement ==
    /\ Idle
    /\ ws_nonce < MaxNonce
    /\ \E wellFormed \in BOOLEAN, delivered \in BOOLEAN, open \in BOOLEAN :
        IF ~wellFormed
          THEN /\ last' = Call("publish_measurement", "AttributeError",
                               FALSE, FALSE, 0, <<>>, NotAsked, NotAsked)
               /\ UNCHANGED <<ws_nonce, ws_connected, stream>>
          ELSE /\ ws_nonce' = ws_nonce + 1
               /\ IF ws_connected /\ delivered
                    THEN /\ stream' = Append(stream, ws_nonce)
                         /\ ws_connected' = ws_connected
                         /\ last' = Call("publish_measurement", "none",
                                         TRUE, TRUE, 0, <<>>, NotAsked,
                                         NotAsked)
                    ELSE /\ stream' = stream
                         /\ ws_connected' = (ws_connected /\ open)
                         /\ last' = Call("publish_measurement",
                                         "WebSocketException",
                                         TRUE, FALSE, 0, <<>>, NotAsked,
                                         NotAsked)
    /\ UNCHANGED <<token, token_data, token_exp, authorization, auth_serial,
                   auth_secret, now, ticks,
                   authenticated, threads>>

Next ==
    \/ Tick
    \/ Authenticate
    \/ Get
    \/ Post
    \/ OpenWebsocket
    \/ PublishMeasurement
    \/ IsAuthenticatedLocally
    \/ IsAuthenticatedVerified
    \/ Return

Spec == Init /\ [][Next]_vars

\* ------------------------------------------------- apiclient.Client

\* The fields of an apiclient.Client as one record; a field the constructor
\* does not set is None.
ApiSelf ==
    [token |-> token, token_data |-> token_data, auth_serial |-> auth_serial,
     auth_secret |-> auth_secret, authenticated |-> authenticated]

\* apiclient.Client.authenticate, the obtain endpoint answering ans: _post
\* parses the body whatever the status, a body with a token is taken at any
\* status, and the attribute authenticated is assigned nowhere.
apiclient_authenticate(c, serial, secret, ans) ==
    LET c1 == [c EXCEPT !.auth_serial = serial, !.auth_secret = secret]
        c2 == [c1 EXCEPT !.token = Some(ans.token)]
        c3 == [c2 EXCEPT !.token_data = Some(Decode(ans.token))]
    IN  IF ans.body = "unreachable"
          THEN [c |-> c1, raised |-> "ConnectionError"]
        ELSE IF ans.body = "html" THEN [c |-> c1, raised |-> "ValueError"]
        ELSE IF ans.body = "null" THEN [c |-> c1, raised |-> "TypeError"]
        ELSE IF ans.body = "token" /\ ans.token.kind = "garbage"
          THEN [c |-> c2, raised |-> "DecodeError"]
        ELSE IF ans.body = "token" THEN [c |-> c3, raised |-> "none"]
        ELSE [c |-> c1, raised |-> "AuthenticationError"]

\* client.authenticate(serial, secret) on an apiclient.Client
ApiclientAuthenticate ==
    /\ Idle
    /\ \E id \in Identities, ans \in ObtainAnswersAt(now.sec) :
        LET a == apiclient_authenticate(ApiSelf, Some(id.serial),
                                        Some(id.secret), ans)
        IN  /\ token' = a.c.token
            /\ token_data' = a.c.token_data
            /\ auth_serial' = a.c.auth_serial
            /\ auth_secret' = a.c.auth_secret
            /\ authenticated' = a.c.authenticated
            /\ last' = Call("authenticate", a.raised, FALSE, FALSE, 0,
                            <<[username |-> Some(id.serial),
                               password |-> Some(id.secret)]>>,
                            NotAsked, ans)
    /\ UNCHANGED <<token_exp, authorization, ws_nonce, ws_connected, stream,
                   now, ticks, threads>>

NextApiclient ==
    \/ Tick
    \/ ApiclientAuthenticate
    \/ Return

SpecApiclient == Init /\ [][NextApiclient]_vars

\* ----------------------------------------- threads sharing one client

\* The fields of a client as Client.__init__ leaves them.
NewClient ==
    [token |-> None, token_data |-> None, token_exp |-> None,
     authorization |-> None, auth_serial |-> None, auth_secret |-> None]

\* The client the threads share: it authenticated as id at time 0 and was
\* given a token of lifetime l.
SharedClient(id, l) ==
    authenticate(NewClient, Some(id.serial), Some(id.secret),
                 Answer(StatusOK, "token", Jwt(l))).c

\* The main thread authenticated and opened the websocket, as
\* examples/authenticate.py does, before the threads start.
InitConcurrent ==
    /\ \E id \in Identities, l \in Lifetimes :
          /\ token = SharedClient(id, l).token
          /\ token_data = SharedClient(id, l).token_data
          /\ token_exp = SharedClient(id, l).token_exp
          /\ authorization = SharedClient(id, l).authorization
          /\ auth_serial = SharedClient(id, l).auth_serial
          /\ auth_secret = SharedClient(id, l).auth_secret
    /\ ws_nonce = 0
    /\ ws_connected = TRUE
    /\ stream = <<>>
    /\ now = [sec |-> 0, frac |-> FALSE]
    /\ ticks = 0
    /\ last = NoCall
    /\ authenticated = FALSE
    /\ threads = [t \in Threads |-> Resting]

\* Thread t calls get or post: the wrapper tests _needs_reauthentication and,
\* when the credential is about to expire, _reauthenticate runs up to the
\* request authenticate sends to auth-token-obtain/ (the refresh raises
\* before it sends anything, authenticate assigns the stored identity to
\* itself). No lock is taken; the thread waits for the answer with the
\* client open to the other threads.
Guard(t) ==
    /\ threads[t].pc = "idle"
    /\ threads' =
         [threads EXCEPT ![t] =
            IF token_exp = None THEN Resting
            ELSE IF _needs_reauthentication(Self, now)
              THEN Thread("obtaining", token, 0, 0)
            ELSE Thread("call", None, 0, 0)]
    /\ UNCHANGED <<token, token_data, token_exp, authorization, auth_serial,
                   auth_secret, ws_nonce, ws_connected, stream, now, ticks,
                   last, authenticated>>

\* The answer of auth-token-obtain/ reaches thread t: authenticate goes on
\* from the response, and the wrapper calls func when nothing was raised.
Obtained(t) ==
    /\ threads[t].pc = "obtaining"
    /\ \E ans \in ObtainAnswersAt(now.sec) :
        LET a == authenticate(Self, auth_serial, auth_secret, ans)
        IN  /\ Install(a.c)
            /\ threads' =
                 [threads EXCEPT ![t] =
                    IF a.raised = "none" THEN Thread("call", None, 0, 0)
                    ELSE Resting]
    /\ UNCHANGED <<ws_nonce, ws_connected, stream, now, ticks, last,
                   authenticated>>

\* Thread t runs the wrapped get or post and returns.
Invoke(t) ==
    /\ threads[t].pc = "call"
    /\ threads' = [threads EXCEPT ![t] = Resting]
    /\ UNCHANGED <<token, token_data, token_exp, authorization, auth_serial,
                   auth_secret, ws_nonce, ws_connected, stream, now, ticks,
                   last, authenticated>>

\* Thread t calls publish_measurement with a well-formed measurement and
\* builds the envelope: it reads self.ws_nonce into the message.
Build(t) ==
    /\ threads[t].pc = "idle"
    /\ ws_nonce < MaxNonce
    /\ threads' = [threads EXCEPT ![t] = Thread("built", None, ws_nonce, 0)]
    /\ UNCHANGED <<token, token_data, token_exp, authorization, auth_serial,
                   auth_secret, ws_nonce, ws_connected, stream, now, ticks,
                   last, authenticated>>

\* self.ws_nonce += 1 is a load, an addition and a store: the load.
Load(t) ==
    /\ threads[t].pc = "built"
    /\ threads' = [threads EXCEPT ![t] =
                     Thread("loaded", None, threads[t].nonce, ws_nonce)]
    /\ UNCHANGED <<token, token_data, token_exp, authorization, auth_serial,
                   auth_secret, ws_nonce, ws_connected, stream, now, ticks,
                   last, authenticated>>

\* self.ws_nonce += 1: the store of the loaded value plus one.
Store(t) ==
    /\ threads[t].pc = "loaded"
    /\ ws_nonce' = threads[t].loaded + 1
    /\ threads' = [threads EXCEPT ![t] =
                     Thread("counted", None, threads[t].nonce, 0)]
    /\ UNCHANGED <<token, token_data, token_exp, authorization, auth_serial,
                   auth_secret, ws_connected, stream, now, ticks, last,
                   authenticated>>

\* self.ws.send(json.dumps(message)): the stream takes the envelope, or the
\* send raises and the connection may or may not remain open.
Send(t) ==
    /\ threads[t].pc = "counted"
    /\ \E delivered \in BOOLEAN, open \in BOOLEAN :
        IF ws_connected /\ delivered
          THEN /\ stream' = Append(stream, threads[t].nonce)
               /\ ws_connected' = ws_connected
          ELSE /\ stream' = stream
               /\ ws_connected' = (ws_connected /\ open)
    /\ threads' = [threads EXCEPT ![t] = Resting]
    /\ UNCHANGED <<token, token_data, token_exp, authorization, auth_serial,
                   auth_secret, ws_nonce, now, ticks, last, authenticated>>

NextConcurrent ==
    \E t \in Threads :
        \/ Guard(t)
        \/ Obtained(t)
        \/ Invoke(t)
        \/ Build(t)
        \/ Load(t)
        \/ Store(t)
        \/ Send(t)

SpecConcurrent == InitConcurrent /\ [][NextConcurrent]_vars

\* ------------------------------------------------------ the credential

\* remaining = expiresAt - now, for a credential that exists: whether it is
\* below, or above, a whole number n of seconds.
RemainingBelow(n) == FloorDiff(Head(token_exp), now) < n

RemainingAbove(n) ==
    IF now.frac THEN FloorDiff(Head(token_exp), now) >= n
    ELSE FloorDiff(Head(token_exp), now) > n

\* A guarded call is being made: get or post starts in this state.
GuardedCall == Idle /\ last'.op \in {"get", "post"}

\* The payload that carries the stored identity.
StoredIdentity ==
    [username |-> auth_serial, password |-> auth_secret]

\* An answer of the obtain endpoint that yields no credential.
Unusable(ans) ==
    ~(ans.status = StatusOK /\ ans.body = "token" /\ ans.token.kind = "jwt")

\* --------------------------------------------------------------- claims

\* C1: a get or post made while margin > remaining > cutoff, the verify
\* endpoint accepting the token, sends exactly one request to
\* auth-token-verify/ and none to auth-token-obtain/, adopts the returned
\* token and then performs the operation.
C1_RefreshInsideWindow ==
    [][(/\ GuardedCall
        /\ token_exp # None
        /\ RemainingBelow(REFRESH_BEFORE_EXPIRY_IN_SECONDS)
        /\ RemainingAbove(REFRESH_BEFORE_EXPIRY_CUTOFF_IN_SECONDS)
        /\ Accepts(last'.verify_answer))
       => (/\ last'.verify = 1
           /\ last'.obtain = <<>>
           /\ token' = Some(last'.verify_answer.token)
           /\ last'.ran)]_vars

\* C2: no get or post is performed while the stored credential is expired
\* (expiresAt <= now): after a call that issued its request, the credential
\* it was issued with has remaining > 0.
C2_NoRequestOnExpiredCredential ==
    (last.op \in {"get", "post"} /\ last.ran /\ token_exp # None)
        => RemainingAbove(0)

\* C3: a get or post on a client that never authenticated sends one request
\* to auth-token-obtain/ first, runs the operation only with a credential,
\* and fails only with AuthenticationError.
C3_FirstCallAuthenticates ==
    [][(GuardedCall /\ token = None /\ token_exp = None /\ auth_serial = None)
       => (/\ Len(last'.obtain) = 1
           /\ last'.ran => token' # None
           /\ ~last'.ran => last'.raised = "AuthenticationError")]_vars

\* C4: a get or post made when renewal is needed (remaining < margin) and
\* the refresh fails or remaining <= cutoff sends exactly one request to
\* auth-token-obtain/, carrying the stored serial and secret.
C4_FallbackObtainsOnce ==
    [][(/\ GuardedCall
        /\ token_exp # None
        /\ RemainingBelow(REFRESH_BEFORE_EXPIRY_IN_SECONDS)
        /\ \/ ~Accepts(last'.verify_answer)
           \/ ~RemainingAbove(REFRESH_BEFORE_EXPIRY_CUTOFF_IN_SECONDS))
       => last'.obtain = <<StoredIdentity>>]_vars

\* C5: a get or post made with remaining >= margin, lifetimes of more than a
\* day included, performs the operation with no request to either endpoint
\* and leaves the credential unchanged.
C5_FreshCredentialIsLeftAlone ==
    [][(/\ GuardedCall
        /\ token_exp # None
        /\ ~RemainingBelow(REFRESH_BEFORE_EXPIRY_IN_SECONDS))
       => (/\ last'.verify = 0
           /\ last'.obtain = <<>>
           /\ last'.ran
           /\ UNCHANGED <<token, token_data, token_exp, authorization>>)]_vars

\* C6: ws_nonce equals the number of envelopes the stream received, and the
\* k-th of them carries nonce k - 1.
C6_NonceCountsDeliveredEnvelopes ==
    /\ ws_nonce = Len(stream)
    /\ \A k \in 1..Len(stream) : stream[k] = k - 1

\* C7: publish_measurement is guarded: called with a credential whose
\* remaining < margin, it sends an envelope on the stream only after a
\* request to auth-token-verify/ or auth-token-obtain/.
C7_PublishIsGuarded ==
    [][(/\ Idle
        /\ last'.op = "publish_measurement"
        /\ token_exp # None
        /\ RemainingBelow(REFRESH_BEFORE_EXPIRY_IN_SECONDS)
        /\ last'.sent)
       => last'.verify + Len(last'.obtain) >= 1]_vars

\* C8: when the obtain endpoint answers with a status other than 200 or a
\* body without a token, authenticate raises AuthenticationError and token,
\* expiry and Authorization header stay what they were.
C8_FailedAuthenticateInstallsNothing ==
    [][(/\ Idle
        /\ last'.op = "authenticate"
        /\ last'.obtain_answer # Unreachable
        /\ \/ last'.obtain_answer.status # StatusOK
           \/ last'.obtain_answer.body # "token")
       => (/\ last'.raised = "AuthenticationError"
           /\ UNCHANGED <<token, token_exp, authorization>>)]_vars

\* C9: when the guard's full authentication fails, the wrapped get or post
\* is not invoked and AuthenticationError reaches the caller.
C9_FailedGuardRaisesAuthenticationError ==
    (/\ last.op \in {"get", "post"}
     /\ last.obtain # <<>>
     /\ Unusable(last.obtain_answer))
        => (~last.ran /\ last.raised = "AuthenticationError")

\* C10: a get or post ends with the operation performed or with
\* AuthenticationError; no other error escapes the guard.
C10_OnlyAuthenticationErrorEscapes ==
    last.op \in {"get", "post"}
        => (last.ran \/ last.raised = "AuthenticationError")

\* C11: the stored credential is consistent as a whole: token and token_exp
\* are both absent, or token_exp is the exp claim of the stored token.
C11_CredentialIsConsistent ==
    \/ token = None /\ token_exp = None
    \/ /\ token # None
       /\ token_exp # None
       /\ token_exp = Decode(Head(token)).exp

\* C12: right after a successful authenticate, is_authenticated(verify =
\* False) returns True and the remaining lifetime is above 0.
C12_FreshAfterAuthenticate ==
    (last.op = "authenticate" /\ last.raised = "none")
        => (/\ is_authenticated(Self, now, FALSE, NotAsked).ret = "True"
            /\ RemainingAbove(0))

\* C13: is_authenticated(verify = False) returns True exactly when a
\* credential is stored whose expiresAt is later than now, and False when it
\* is expired or absent.
C13_LocalCheckIsFaithful ==
    last.op = "is_authenticated"
        => (/\ last.raised = "none"
            /\ last.ret = "True" <=> (token_exp # None /\ RemainingAbove(0)))

\* C14: is_authenticated(verify = True) sends one request to
\* auth-token-verify/, returns True exactly when the endpoint answers with
\* status 200, sends nothing to auth-token-obtain/, and leaves token, expiry,
\* header, identity and nonce unchanged whatever the answer.
C14_VerifyHasNoSideEffects ==
    [][(Idle /\ last'.op = "is_authenticated_verify")
       => (/\ last'.verify = 1
           /\ last'.obtain = <<>>
           /\ last'.verify_answer # Unreachable
                => (/\ last'.raised = "none"
                    /\ last'.ret = "True"
                         <=> last'.verify_answer.status = StatusOK)
           /\ UNCHANGED <<token, token_data, token_exp, authorization,
                          auth_serial, auth_secret, ws_nonce>>)]_vars

\* C14 happens: a client holding a credential asked, and the endpoint
\* accepted with a token in its answer.
C14_Witness ==
    /\ last.op = "is_authenticated_verify"
    /\ last.ret = "True"
    /\ Accepts(last.verify_answer)
    /\ token # None

\* Thread t is in a credential-mutating operation: its authenticate has
\* sent the request and has not yet handled the answer.
InRenewal(t) == threads[t].pc = "obtaining"

\* C15: of the threads that make guarded calls on one client, at most one
\* is renewing the credential at any time.
C15_RenewalIsExclusive ==
    \A s, t \in Threads : s # t => ~(InRenewal(s) /\ InRenewal(t))

\* C16: the envelopes of concurrent publish_measurement calls reach the
\* stream with pairwise distinct nonces in strictly increasing order.
C16_PublishesAreSerialized ==
    \A i, j \in 1..Len(stream) : i < j => stream[i] < stream[j]

\* C17: an authenticate that repeats the identity of the credential the
\* client holds sends one request to auth-token-obtain/ with that identity
\* all the same, and when it succeeds the answer's token replaces the
\* credential as a whole: token, claims, expiry and header.
C17_AuthenticateIsNotCached ==
    [][(Idle /\ last'.op = "authenticate" /\ last'.again)
       => (/\ last'.obtain = <<StoredIdentity>>
           /\ UNCHANGED <<auth_serial, auth_secret>>
           /\ last'.raised = "none"
                => (/\ token' = Some(last'.obtain_answer.token)
                    /\ token_data' = Some(Decode(last'.obtain_answer.token))
                    /\ token_exp' = Some(last'.obtain_answer.token.exp)
                    /\ authorization' =
                         Some(AuthorizationHeader(last'.obtain_answer.token))))
      ]_vars

\* C17 happens: a second authenticate with the same identity succeeded and
\* its token is the one stored.
C17_Witness ==
    /\ last.op = "authenticate"
    /\ last.again
    /\ last.raised = "none"
    /\ token = Some(last.obtain_answer.token)

\* C18: once an identity is stored, nothing but a successful authenticate
\* changes it: no guarded call, publish, verification or failed
\* authenticate.
C18_IdentityIsImmutable ==
    [][(/\ Idle
        /\ auth_serial # None
        /\ ~(last'.op = "authenticate" /\ last'.raised = "none"))
       => UNCHANGED <<auth_serial, auth_secret>>]_vars

\* C19: on an apiclient.Client, the attribute authenticated reports
\* authenticated once a successful authenticate has stored a token, and
\* reports unauthenticated as long as no token was stored.
C19_FlagFollowsAuthenticate ==
    /\ (last.op = "authenticate" /\ last.raised = "none") => authenticated
    /\ token = None => ~authenticated

\* C20: the Authorization header is absent exactly when no token is stored,
\* and is otherwise 'JWT ' followed by the stored token.
C20_HeaderCarriesStoredToken ==
    \/ token = None /\ authorization = None
    \/ /\ token # None
       /\ authorization = Some(AuthorizationHeader(Head(token)))

\* ------------------------------------------------------------- lemmas

\* The guard never lets the operation run after a failed authentication.
FailedGuardSkipsOperation ==
    (/\ last.op \in {"get", "post"}
     /\ last.obtain # <<>>
     /\ Unusable(last.obtain_answer))
        => ~last.ran

\* An authenticate that the endpoint answers without a usable token leaves
\* token, expiry and header alone when the body carries no token at all.
RejectedAuthenticateKeepsCredential ==
    [][(/\ Idle
        /\ last'.op = "authenticate"
        /\ \/ last'.obtain_answer.status # StatusOK
           \/ last'.obtain_answer.body # "token")
       => UNCHANGED <<token, token_exp, authorization>>]_vars

\* A refresh failure never reaches the caller.
RefreshErrorIsSwallowed == last.raised \notin {"NameError", "TokenRefreshError"}

\* Every guard that renews sends exactly one request to auth-token-obtain/,
\* with the stored identity.
RenewalObtainsOnce ==
    [][(GuardedCall /\ Renews(Self, now))
       => last'.obtain = <<StoredIdentity>>]_vars

====
